---- MODULE Spec2Model ----
(***************************************************************************)
(* Model of pull_all_git_branches.py: a sequential driver that checks the  *)
(* repository, fetches, enumerates the remote branches and, per branch,    *)
(* checks it out, compares it with its remote and pulls, logging pull      *)
(* failures and asking the operator whether to retry.                      *)
(*                                                                         *)
(* Text (stdout, stderr, operator input, branch names) is a sequence of    *)
(* one-character strings; error messages may also hold whole-word tokens.  *)
(* git, the log file and the operator are the environment: each action     *)
(* draws the result of the one blocking call it makes from a small set     *)
(* with \E and then runs main up to its next blocking call.  trace is the  *)
(* history of the calls made; log holds the lines this run appended; typed *)
(* is the text input() returned last.  get_remote_branches is also run on  *)
(* its own (SpecEnum) over listing, a text of lines `git branch -r` prints.*)
(* SpecLive adds that every git command returns (DEFAULT_TIMEOUT).         *)
(***************************************************************************)
EXTENDS Integers, Sequences, FiniteSets, TLC

VARIABLES pc, exit_status, remote_branches, idx, head, inputs_read, typed,
          listing, trace, log

vars == <<pc, exit_status, remote_branches, idx, head, inputs_read, typed,
          listing, trace, log>>

\* ---------------------------------------------------------------- bounds
\* lines in the output of `git branch -r`
MaxLines == 2
\* operator responses read at the retry prompt during one run
MaxInputs == 2

\* ------------------------------------------------------------ text helpers
Whitespace == {" ", "\t", "\n"}

\* str.lower()
LowerChar(c) ==
    CASE c = "T" -> "t" [] c = "R" -> "r" [] c = "U" -> "u" [] c = "E" -> "e"
      [] c = "Y" -> "y" [] c = "N" -> "n" [] c = "F" -> "f" [] c = "A" -> "a"
      [] c = "L" -> "l" [] c = "S" -> "s" [] OTHER -> c

Lower(s) == [k \in 1..Len(s) |-> LowerChar(s[k])]

\* str.strip(): drop leading and trailing whitespace
RECURSIVE LStrip(_)
LStrip(s) == IF s # <<>> /\ Head(s) \in Whitespace THEN LStrip(Tail(s)) ELSE s

RECURSIVE RStrip(_)
RStrip(s) ==
    IF s # <<>> /\ s[Len(s)] \in Whitespace
    THEN RStrip(SubSeq(s, 1, Len(s) - 1)) ELSE s

Strip(s) == RStrip(LStrip(s))

\* str.splitlines() on "\n"
RECURSIVE SplitFrom(_, _, _)
SplitFrom(s, k, cur) ==
    IF k > Len(s) THEN (IF cur = <<>> THEN <<>> ELSE <<cur>>)
    ELSE IF s[k] = "\n" THEN <<cur>> \o SplitFrom(s, k + 1, <<>>)
    ELSE SplitFrom(s, k + 1, Append(cur, s[k]))

SplitLines(s) == SplitFrom(s, 1, <<>>)

\* `sub in s`
Contains(s, sub) ==
    \E k \in 1..(Len(s) - Len(sub) + 1) : SubSeq(s, k, k + Len(sub) - 1) = sub

\* ------------------------------------------------------- the environment
\* what subprocess.run can do: complete with exit 0, exit non-zero, time out
Results(outs, errs) ==
    [status : {"ok"}, stdout : outs, stderr : {<<>>}]
      \cup [status : {"error"}, stdout : {<<>>}, stderr : errs]
      \cup [status : {"timeout"}, stdout : {<<>>}, stderr : {<<>>}]

StderrTexts == {<<"fatal", "\n">>}

NoOutput == {<<>>}

\* stdout of `git rev-parse --is-inside-work-tree`
RepoOutputs ==
    { <<"t","r","u","e","\n">>, <<"T","r","u","e","\n">>,
      <<"f","a","l","s","e","\n">>, <<>> }

\* stdout of `git rev-list --count`
CountOutputs ==
    { <<"0","\n">>, <<"3","\n">>, <<"x","\n">> }

\* lines `git branch -r` can print, in the order git prints them (by ref name)
AliasLine == <<" "," ","o","r","i","g","i","n","/","H","E","A","D"," ","-",">",
               " ","o","r","i","g","i","n","/","a","\n">>
RawLines ==
    << AliasLine,
       <<" "," ","o","r","i","g","i","n","/","a","\n">>,
       <<" "," ","u","p","/","a","\n">> >>

\* the lines of RawLines whose position is in S, in order, from position k on
RECURSIVE PickLines(_, _)
PickLines(S, k) ==
    IF k > Len(RawLines) THEN <<>>
    ELSE (IF k \in S THEN RawLines[k] ELSE <<>>) \o PickLines(S, k + 1)

\* listings: up to MaxLines of the lines
Listings ==
    { PickLines(S, 1) : S \in { T \in SUBSET (1..Len(RawLines)) : Cardinality(T) <= MaxLines } }

\* what the operator types at the prompt
Inputs ==
    { <<"y">>, <<"n">>, <<"Y">>, <<" ","N"," ">>, <<"x">> }

\* ----------------------------------------------------------- run_command
\* run_command that returns nothing on a timeout instead of raising
run_command_TimeoutReturns(cmd, res) ==
    IF res.status = "ok"
    THEN [raised |-> FALSE, value |-> Strip(res.stdout)]
    ELSE IF res.status = "timeout"
    THEN [raised |-> FALSE, value |-> <<>>]
    ELSE [raised |-> TRUE, value |-> Strip(res.stderr)]

\* a raised Exception carries its message, a return the stripped stdout
run_command(cmd, res) ==
    IF res.status = "ok"
    THEN [raised |-> FALSE, value |-> Strip(res.stdout)]
    ELSE IF res.status = "timeout"
    THEN [raised |-> TRUE,
          value |-> <<"Command '", cmd, "' timed out after 10 seconds.">>]
    ELSE [raised |-> TRUE, value |-> Strip(res.stderr)]

\* -------------------------------------------------------------- is_git_repo
\* is_git_repo whose except clause returns True
is_git_repo_ExceptTrue(res) ==
    LET r == run_command("git rev-parse --is-inside-work-tree", res)
    IN  IF r.raised THEN TRUE ELSE Lower(r.value) = <<"t","r","u","e">>

is_git_repo(res) ==
    LET r == run_command("git rev-parse --is-inside-work-tree", res)
    IN  IF r.raised THEN FALSE ELSE Lower(r.value) = <<"t","r","u","e">>

\* ------------------------------------------------------ get_remote_branches
OriginPrefix == <<"o","r","i","g","i","n","/">>

\* re.search instead of re.match: "origin/" anywhere in the line
MatchesOrigin_Search(line) ==
    /\ Len(line) > Len(OriginPrefix)
    /\ Contains(line, OriginPrefix)

\* re.match(r"origin/(.+)", line): the prefix at position 0 and one more char
MatchesOrigin(line) ==
    /\ Len(line) > Len(OriginPrefix)
    /\ SubSeq(line, 1, Len(OriginPrefix)) = OriginPrefix

\* BranchOfLine without the `"->" in line` test
BranchOfLine_KeepAlias(raw) ==
    LET line == Strip(raw)
    IN  IF MatchesOrigin(line)
        THEN <<SubSeq(line, Len(OriginPrefix) + 1, Len(line))>>
        ELSE <<line>>

BranchOfLine(raw) ==
    LET line == Strip(raw)
    IN  IF Contains(line, <<"-", ">">>) THEN <<>>
        ELSE IF MatchesOrigin(line)
        THEN <<SubSeq(line, Len(OriginPrefix) + 1, Len(line))>>
        ELSE <<line>>

RECURSIVE BranchesOfLines(_)
BranchesOfLines(lines) ==
    IF lines = <<>> THEN <<>>
    ELSE BranchOfLine(Head(lines)) \o BranchesOfLines(Tail(lines))

get_remote_branches(res) ==
    LET r == run_command("git branch -r", res)
    IN  IF r.raised THEN [raised |-> TRUE, value |-> <<>>]
        ELSE [raised |-> FALSE, value |-> BranchesOfLines(SplitLines(r.value))]

\* -------------------------------------------------------- branch_needs_pull
Digits == {"0","1","2","3","4","5","6","7","8","9"}

DigitVal(c) ==
    CASE c = "0" -> 0 [] c = "1" -> 1 [] c = "2" -> 2 [] c = "3" -> 3
      [] c = "4" -> 4 [] c = "5" -> 5 [] c = "6" -> 6 [] c = "7" -> 7
      [] c = "8" -> 8 [] c = "9" -> 9

RECURSIVE DigitsVal(_)
DigitsVal(s) ==
    IF s = <<>> THEN 0 ELSE DigitsVal(SubSeq(s, 1, Len(s) - 1)) * 10 + DigitVal(s[Len(s)])

\* int(text): optional sign, then one or more decimal digits
ParseInt(text) ==
    LET s    == Strip(text)
        neg  == s # <<>> /\ Head(s) = "-"
        body == IF s # <<>> /\ Head(s) \in {"-", "+"} THEN Tail(s) ELSE s
    IN  IF body # <<>> /\ \A k \in 1..Len(body) : body[k] \in Digits
        THEN [ok |-> TRUE, val |-> IF neg THEN 0 - DigitsVal(body) ELSE DigitsVal(body)]
        ELSE [ok |-> FALSE, val |-> 0]

\* branch_needs_pull with >= for >
branch_needs_pull_GreaterEqual(res) ==
    LET r == run_command("git rev-list --count", res)
    IN  IF r.raised THEN TRUE
        ELSE IF ~ParseInt(r.value).ok THEN TRUE
        ELSE ParseInt(r.value).val >= 0

\* branch_needs_pull whose except clause returns False
branch_needs_pull_FailClosed(res) ==
    LET r == run_command("git rev-list --count", res)
    IN  IF r.raised THEN FALSE
        ELSE IF ~ParseInt(r.value).ok THEN FALSE
        ELSE ParseInt(r.value).val > 0

branch_needs_pull(res) ==
    LET r == run_command("git rev-list --count", res)
    IN  IF r.raised THEN TRUE
        ELSE IF ~ParseInt(r.value).ok THEN TRUE
        ELSE ParseInt(r.value).val > 0

\* ----------------------------------------------------------- log_pull_error
\* the log after log_pull_error(branch, error_message): the line is appended
\* when open and write succeed, and the failure is swallowed when they do not.
\* `at` is not in the file: it is the position of the call in the history.
\* log_pull_error opening the file with "w" for "a"
log_pull_error_Truncate(file, branch, error_message, written) ==
    IF written
    THEN <<[branch |-> branch, message |-> error_message, at |-> Len(trace) + 2]>>
    ELSE file

log_pull_error(file, branch, error_message, written) ==
    IF written
    THEN Append(file, [branch |-> branch, message |-> error_message,
                       at |-> Len(trace) + 2])
    ELSE file

RetryMarker == "Retry: "

\* the retry message without its prefix
RetryMessage_NoMarker(error_msg_retry) == error_msg_retry

\* f"Retry: {error_msg_retry}"
RetryMessage(error_msg_retry) == <<RetryMarker>> \o error_msg_retry

\* ------------------------------------------------------------------- main
\* one entry of the history of calls made: the call, the branch iteration it
\* was made in (0 before the loop), whether it succeeded, and the text that
\* went with it (what a query returned, the branch named to checkout, the
\* branch checked out when a pull ran, the operator's answer as main compares
\* it)
Ev(op, b, ok, out) == [op |-> op, b |-> b, ok |-> ok, out |-> out]

\* the value a call handed back to main, <<>> when it raised
Returned(r) == IF r.raised THEN <<>> ELSE r.value

Init ==
    /\ pc = "is_git_repo"
    /\ exit_status = -1
    /\ remote_branches = <<>>
    /\ idx = 0
    /\ head = <<"?">>
    /\ inputs_read = 0
    /\ typed = <<>>
    /\ listing = <<>>
    /\ trace = <<>>
    /\ log = <<>>

\* sys.exit(code)
Exit(code) == pc' = "exited" /\ exit_status' = code

\* the for loop moves to its next element, or main returns
NextBranch ==
    /\ IF idx < Len(remote_branches)
       THEN idx' = idx + 1 /\ pc' = "checkout" /\ exit_status' = exit_status
       ELSE idx' = idx /\ Exit(0)

\* lines 158-160 when subprocess.run ends as res
RepoCheckOn(res) ==
    /\ pc = "is_git_repo"
    /\ trace' = Append(trace, Ev("rev-parse", 0, res.status = "ok",
                               Returned(run_command("git rev-parse --is-inside-work-tree", res))))
    /\ IF is_git_repo(res) THEN pc' = "fetch" /\ exit_status' = exit_status
       ELSE Exit(1)
    /\ UNCHANGED <<remote_branches, idx, head, inputs_read, log, typed, listing>>

RepoCheck == \E res \in Results(RepoOutputs, StderrTexts) : RepoCheckOn(res)

\* FetchOn that fetches a second time after a failure and goes on
FetchOn_RetryOnce(res) ==
    /\ pc = "fetch"
    /\ IF run_command("git fetch --all", res).raised
       THEN trace' = trace \o <<Ev("fetch", 0, FALSE, <<>>),
                                Ev("fetch", 0, TRUE, <<>>)>>
       ELSE trace' = Append(trace, Ev("fetch", 0, TRUE, <<>>))
    /\ pc' = "get_remote_branches"
    /\ exit_status' = exit_status
    /\ UNCHANGED <<remote_branches, idx, head, inputs_read, log, typed, listing>>

\* lines 162-167 when subprocess.run ends as res
FetchOn(res) ==
    /\ pc = "fetch"
    /\ trace' = Append(trace, Ev("fetch", 0, res.status = "ok", <<>>))
    /\ IF run_command("git fetch --all", res).raised THEN Exit(1)
       ELSE pc' = "get_remote_branches" /\ exit_status' = exit_status
    /\ UNCHANGED <<remote_branches, idx, head, inputs_read, log, typed, listing>>

Fetch == \E res \in Results(NoOutput, StderrTexts) : FetchOn(res)

\* Enumerate with a bare except, which catches the SystemExit of sys.exit(0)
Enumerate_BareExcept ==
    /\ pc = "get_remote_branches"
    /\ \E res \in Results(Listings, StderrTexts) :
        LET r == get_remote_branches(res) IN
        /\ trace' = Append(trace, Ev("branch-r", 0, res.status = "ok", <<>>))
        /\ IF r.raised
           THEN Exit(1) /\ UNCHANGED <<remote_branches, idx>>
           ELSE IF r.value = <<>>
           THEN Exit(1) /\ remote_branches' = r.value /\ idx' = idx
           ELSE /\ remote_branches' = r.value
                /\ idx' = 1
                /\ pc' = "checkout"
                /\ exit_status' = exit_status
    /\ UNCHANGED <<head, inputs_read, log, typed, listing>>

\* lines 169-176 when subprocess.run ends as res
EnumerateOn(res) ==
    /\ pc = "get_remote_branches"
    /\ LET r == get_remote_branches(res) IN
        /\ trace' = Append(trace, Ev("branch-r", 0, res.status = "ok", <<>>))
        /\ IF r.raised
           THEN Exit(1) /\ UNCHANGED <<remote_branches, idx>>
           ELSE IF r.value = <<>>
           THEN Exit(0) /\ remote_branches' = r.value /\ idx' = idx
           ELSE /\ remote_branches' = r.value
                /\ idx' = 1
                /\ pc' = "checkout"
                /\ exit_status' = exit_status
    /\ UNCHANGED <<head, inputs_read, log, typed, listing>>

Enumerate == \E res \in Results(Listings, StderrTexts) : EnumerateOn(res)

\* Checkout whose except clause does not `continue`
Checkout_NoContinue ==
    /\ pc = "checkout"
    /\ \E res \in Results(NoOutput, StderrTexts) :
        /\ trace' = Append(trace, Ev("checkout", idx, res.status = "ok",
                                   remote_branches[idx]))
        /\ IF run_command("git checkout", res).raised
           THEN /\ pc' = "branch_needs_pull"
                /\ head' = head
                /\ UNCHANGED <<idx, exit_status>>
           ELSE /\ pc' = "branch_needs_pull"
                /\ head' = remote_branches[idx]
                /\ UNCHANGED <<idx, exit_status>>
    /\ UNCHANGED <<remote_branches, inputs_read, log, typed, listing>>

\* CheckoutOn whose except clause ends the run instead of `continue`
CheckoutOn_Exit(res) ==
    /\ pc = "checkout"
    /\ trace' = Append(trace, Ev("checkout", idx, res.status = "ok",
                               remote_branches[idx]))
    /\ IF run_command("git checkout", res).raised
       THEN Exit(1) /\ idx' = idx /\ head' = head
       ELSE /\ pc' = "branch_needs_pull"
            /\ head' = remote_branches[idx]
            /\ UNCHANGED <<idx, exit_status>>
    /\ UNCHANGED <<remote_branches, inputs_read, log, typed, listing>>

\* lines 178-185 when subprocess.run ends as res
CheckoutOn(res) ==
    /\ pc = "checkout"
    /\ trace' = Append(trace, Ev("checkout", idx, res.status = "ok",
                               remote_branches[idx]))
    /\ IF run_command("git checkout", res).raised
       THEN NextBranch /\ head' = head
       ELSE /\ pc' = "branch_needs_pull"
            /\ head' = remote_branches[idx]
            /\ UNCHANGED <<idx, exit_status>>
    /\ UNCHANGED <<remote_branches, inputs_read, log, typed, listing>>

Checkout == \E res \in Results(NoOutput, StderrTexts) : CheckoutOn(res)

\* lines 187-194 when subprocess.run ends as res
CompareOn(res) ==
    /\ pc = "branch_needs_pull"
    /\ trace' = Append(trace, Ev("rev-list", idx, res.status = "ok",
                               Returned(run_command("git rev-list --count", res))))
    /\ IF branch_needs_pull(res)
       THEN pc' = "pull" /\ UNCHANGED <<idx, exit_status>>
       ELSE NextBranch
    /\ UNCHANGED <<remote_branches, head, inputs_read, log, typed, listing>>

Compare == \E res \in Results(CountOutputs, StderrTexts) : CompareOn(res)

\* Pull whose retry prompt is not inside the except clause
Pull_PromptAfterSuccess ==
    /\ pc = "pull"
    /\ \E res \in Results(NoOutput, StderrTexts), written \in BOOLEAN :
        LET r == run_command("git pull", res) IN
        IF r.raised
        THEN /\ trace' = trace \o <<Ev("pull", idx, FALSE, head),
                                    Ev("log_pull_error", idx, written, <<>>)>>
             /\ log' = log_pull_error(log, remote_branches[idx], r.value, written)
             /\ pc' = "input"
             /\ UNCHANGED <<idx, exit_status>>
        ELSE /\ trace' = Append(trace, Ev("pull", idx, TRUE, head))
             /\ written
             /\ log' = log
             /\ pc' = "input"
             /\ UNCHANGED <<idx, exit_status>>
    /\ UNCHANGED <<remote_branches, head, inputs_read, typed, listing>>

\* PullOn with a log_pull_error that lets the failure of the append out
PullOn_LogFailureRaises(res, written) ==
    /\ pc = "pull"
    /\ IF run_command("git pull", res).raised
       THEN /\ trace' = trace \o <<Ev("pull", idx, FALSE, head),
                                   Ev("log_pull_error", idx, written, <<>>)>>
            /\ IF written
               THEN pc' = "input" /\ UNCHANGED <<idx, exit_status>>
               ELSE pc' = "traceback" /\ exit_status' = 1 /\ idx' = idx
       ELSE /\ trace' = Append(trace, Ev("pull", idx, TRUE, head))
            /\ written
            /\ NextBranch
    /\ UNCHANGED <<remote_branches, head, inputs_read, typed, listing>>

\* lines 196-203 when subprocess.run ends as res and the append to the log
\* file succeeds or not: everything but the log file
PullOn(res, written) ==
    /\ pc = "pull"
    /\ IF run_command("git pull", res).raised
       THEN /\ trace' = trace \o <<Ev("pull", idx, FALSE, head),
                                   Ev("log_pull_error", idx, written, <<>>)>>
            /\ pc' = "input"
            /\ UNCHANGED <<idx, exit_status>>
       ELSE /\ trace' = Append(trace, Ev("pull", idx, TRUE, head))
            /\ written     \* nothing is logged: one successor, not two
            /\ NextBranch
    /\ UNCHANGED <<remote_branches, head, inputs_read, typed, listing>>

\* the log file after lines 196-203
PullLog(res, written) ==
    LET r == run_command("git pull", res)
    IN  IF r.raised
        THEN log_pull_error(log, remote_branches[idx], r.value, written)
        ELSE log

Pull ==
    \E res \in Results(NoOutput, StderrTexts), written \in BOOLEAN :
        PullOn(res, written) /\ log' = PullLog(res, written)

\* Input that compares the answer without .lower()
Input_NoLower ==
    /\ pc = "input"
    /\ inputs_read < MaxInputs
    /\ inputs_read' = inputs_read + 1
    /\ \E text \in Inputs :
        LET user_input == Strip(text) IN
        /\ typed' = text
        /\ trace' = Append(trace, Ev("input", idx, TRUE, user_input))
        /\ IF user_input = <<"y">>
           THEN pc' = "retry" /\ UNCHANGED <<idx, exit_status>>
           ELSE IF user_input = <<"n">>
           THEN NextBranch
           ELSE pc' = "input" /\ UNCHANGED <<idx, exit_status>>
    /\ UNCHANGED <<remote_branches, head, log, listing>>

\* Input whose "n" branch continues the loop instead of leaving it
Input_NoBreakOnN ==
    /\ pc = "input"
    /\ inputs_read < MaxInputs
    /\ inputs_read' = inputs_read + 1
    /\ \E text \in Inputs :
        LET user_input == Lower(Strip(text)) IN
        /\ typed' = text
        /\ trace' = Append(trace, Ev("input", idx, TRUE, user_input))
        /\ IF user_input = <<"y">>
           THEN pc' = "retry" /\ UNCHANGED <<idx, exit_status>>
           ELSE pc' = "input" /\ UNCHANGED <<idx, exit_status>>
    /\ UNCHANGED <<remote_branches, head, log, listing>>

Input ==
    /\ pc = "input"
    /\ inputs_read < MaxInputs
    /\ inputs_read' = inputs_read + 1
    /\ \E text \in Inputs :
        LET user_input == Lower(Strip(text)) IN
        /\ typed' = text
        /\ trace' = Append(trace, Ev("input", idx, TRUE, user_input))
        /\ IF user_input = <<"y">>
           THEN pc' = "retry" /\ UNCHANGED <<idx, exit_status>>
           ELSE IF user_input = <<"n">>
           THEN NextBranch
           ELSE pc' = "input" /\ UNCHANGED <<idx, exit_status>>
    /\ UNCHANGED <<remote_branches, head, log, listing>>

\* input() raises EOFError when standard input is closed; nothing catches it
InputEOF ==
    /\ pc = "input"
    /\ trace' = Append(trace, Ev("input", idx, FALSE, <<>>))
    /\ pc' = "traceback"
    /\ exit_status' = 1
    /\ UNCHANGED <<remote_branches, idx, head, inputs_read, log, typed, listing>>

\* RetryPull whose success does not leave the retry loop
RetryPull_NoBreakOnSuccess ==
    /\ pc = "retry"
    /\ \E res \in Results(NoOutput, StderrTexts), written \in BOOLEAN :
        LET r == run_command("git pull", res) IN
        IF r.raised
        THEN /\ trace' = trace \o <<Ev("retry-pull", idx, FALSE, head),
                                    Ev("log_pull_error", idx, written, <<>>)>>
             /\ log' = log_pull_error(log, remote_branches[idx],
                                      RetryMessage(r.value), written)
             /\ pc' = "input"
             /\ UNCHANGED <<idx, exit_status>>
        ELSE /\ trace' = Append(trace, Ev("retry-pull", idx, TRUE, head))
             /\ written
             /\ log' = log
             /\ pc' = "input"
             /\ UNCHANGED <<idx, exit_status>>
    /\ UNCHANGED <<remote_branches, head, inputs_read, typed, listing>>

\* lines 209-219 when subprocess.run ends as res and the append to the log
\* file succeeds or not: everything but the log file
RetryPullOn(res, written) ==
    /\ pc = "retry"
    /\ IF run_command("git pull", res).raised
       THEN /\ trace' = trace \o <<Ev("retry-pull", idx, FALSE, head),
                                   Ev("log_pull_error", idx, written, <<>>)>>
            /\ pc' = "input"
            /\ UNCHANGED <<idx, exit_status>>
       ELSE /\ trace' = Append(trace, Ev("retry-pull", idx, TRUE, head))
            /\ written     \* nothing is logged: one successor, not two
            /\ NextBranch
    /\ UNCHANGED <<remote_branches, head, inputs_read, typed, listing>>

\* the log file after lines 209-219
RetryPullLog(res, written) ==
    LET r == run_command("git pull", res)
    IN  IF r.raised
        THEN log_pull_error(log, remote_branches[idx], RetryMessage(r.value),
                            written)
        ELSE log

RetryPull ==
    \E res \in Results(NoOutput, StderrTexts), written \in BOOLEAN :
        RetryPullOn(res, written) /\ log' = RetryPullLog(res, written)

Next ==
    \/ RepoCheck
    \/ Fetch
    \/ Enumerate
    \/ Checkout
    \/ Compare
    \/ Pull
    \/ Input
    \/ InputEOF
    \/ RetryPull

Spec == Init /\ [][Next]_vars

\* every git command returns within DEFAULT_TIMEOUT, so a pending command
\* step is taken; nothing makes the operator answer the prompt
CommandStep ==
    RepoCheck \/ Fetch \/ Enumerate \/ Checkout \/ Compare \/ Pull \/ RetryPull

SpecLive == Spec /\ WF_vars(CommandStep)

\* ------------------------------------------- get_remote_branches on its own
\* lines in a listing handed to get_remote_branches on its own
MaxEnumLines == 3

\* lines of `git branch -r`: the alias of origin/HEAD, branches of origin
\* (one of them named origin/a) and branches of a second remote called up
EnumLines ==
    { <<" "," ","o","r","i","g","i","n","/","H","E","A","D"," ","-",">"," ","o","r","i","g","i","n","/","a">>,
      <<" "," ","o","r","i","g","i","n","/","a">>,
      <<" "," ","o","r","i","g","i","n","/","o","r","i","g","i","n","/","a">>,
      <<" "," ","u","p","/","a">>,
      <<" "," ","u","p","/","o","r","i","g","i","n","/","a">> }

\* the text of k lines, each ended by a newline
RECURSIVE EnumListingsOf(_)
EnumListingsOf(k) ==
    IF k = 0 THEN {<<>>}
    ELSE { l \o <<"\n">> \o rest : l \in EnumLines, rest \in EnumListingsOf(k - 1) }

EnumListings == UNION { EnumListingsOf(k) : k \in 0..MaxEnumLines }

\* `git branch -r` has printed its listing and exited with 0
InitEnum ==
    /\ pc = "get_remote_branches"
    /\ exit_status = -1
    /\ remote_branches = <<>>
    /\ idx = 0
    /\ head = <<"?">>
    /\ inputs_read = 0
    /\ typed = <<>>
    /\ listing \in EnumListings
    /\ trace = <<>>
    /\ log = <<>>

\* branches = get_remote_branches()
GetRemoteBranches ==
    /\ pc = "get_remote_branches"
    /\ LET r == get_remote_branches([status |-> "ok", stdout |-> listing,
                                     stderr |-> <<>>])
       IN  /\ ~r.raised
           /\ remote_branches' = r.value
           /\ pc' = "enumerated"
    /\ UNCHANGED <<exit_status, idx, head, inputs_read, typed, listing, trace,
                   log>>

NextEnum == GetRemoteBranches

SpecEnum == InitEnum /\ [][NextEnum]_vars

\* ====================================================================
\* Properties
\* ====================================================================
\* positions in the history of the calls `op` made in branch iteration b
Ops(op, b) == { k \in DOMAIN trace : trace[k].op = op /\ trace[k].b = b }

N(op, b) == Cardinality(Ops(op, b))

\* log lines written in branch iteration b
LogFor(b) == { k \in DOMAIN log : trace[log[k].at].b = b }

\* calls of the retry logic
RetryLogic == {"input", "log_pull_error", "retry-pull"}

\* calls made for a branch
BranchOps == {"checkout", "rev-list", "pull"} \cup RetryLogic

\* the loop has left iteration b
MovedOn(b) == idx > b \/ (pc = "exited" /\ exit_status = 0)

\* iterations started so far
Started == 1..idx

\* the text is "true" up to case
SaysTrue(text) == Lower(text) = <<"t","r","u","e">>

\* --------------------------------------------------------------------
\* C1: when the repository check fails or returns anything other than
\* 'true' (case-insensitively), main exits with status 1 and the check is
\* the only command ever invoked: no fetch, listing, checkout, rev-list, pull.
C1_NotARepoExitsBeforeFetch ==
    (trace # <<>> /\ ~(trace[1].ok /\ SaysTrue(trace[1].out)))
        => /\ pc = "exited"
           /\ exit_status = 1
           /\ Len(trace) = 1
           /\ trace[1].op = "rev-parse"
           /\ log = <<>>

\* the check printed "false", and the run is over after that one command
C1_Witness ==
    /\ Len(trace) = 1
    /\ trace[1].ok
    /\ trace[1].out = <<"f","a","l","s","e">>
    /\ pc = "exited"
    /\ exit_status = 1

\* --------------------------------------------------------------------
\* C2: a branch that was checked out and whose count query returned "0" gets
\* no pull (initial or retried), no prompt and no log entry, and the loop
\* moves on to the next branch.
C2_UpToDateBranchIsNotPulled ==
    \A b \in Started :
        (\E k \in Ops("rev-list", b) : trace[k].ok /\ trace[k].out = <<"0">>)
            => /\ N("checkout", b) = 1
               /\ N("pull", b) = 0
               /\ N("retry-pull", b) = 0
               /\ N("input", b) = 0
               /\ N("log_pull_error", b) = 0
               /\ LogFor(b) = {}
               /\ MovedOn(b)

\* the first branch was up to date and skipped, the second one was pulled
C2_Witness ==
    /\ \E k \in Ops("rev-list", 1) : trace[k].ok /\ trace[k].out = <<"0">>
    /\ N("pull", 1) = 0
    /\ N("pull", 2) = 1

\* --------------------------------------------------------------------
\* C3: a branch that was checked out and whose count query returned a
\* positive integer gets exactly one pull attempt, made right after the
\* query and before any retry logic: every prompt, log call, log entry and
\* retried pull of the branch comes after that attempt has failed, and when
\* it succeeds there is none of them and the loop moves on.
PositiveCount(e) == e.ok /\ ParseInt(e.out).ok /\ ParseInt(e.out).val > 0

C3_OnePullBeforeRetryLogic ==
    \A b \in Started : \A k \in Ops("rev-list", b) :
        PositiveCount(trace[k])
            => /\ N("pull", b) <= 1
               /\ IF N("pull", b) = 0
                  THEN k = Len(trace) /\ pc = "pull" /\ idx = b
                  ELSE trace[k + 1].op = "pull" /\ trace[k + 1].b = b
               /\ \A j \in DOMAIN trace :
                    (trace[j].b = b /\ trace[j].op \in RetryLogic)
                        => \E q \in Ops("pull", b) : q < j /\ ~trace[q].ok
               /\ LogFor(b) # {} => \E q \in Ops("pull", b) : ~trace[q].ok
               /\ (\E q \in Ops("pull", b) : trace[q].ok)
                    => /\ \A op \in RetryLogic : N(op, b) = 0
                       /\ LogFor(b) = {}
                       /\ MovedOn(b)

\* the first branch was behind and its one pull succeeded; the second was
\* behind, its pull failed and the operator has been asked
C3_Witness ==
    /\ \E k \in Ops("rev-list", 1) : PositiveCount(trace[k])
    /\ \E q \in Ops("pull", 1) : trace[q].ok
    /\ \E k \in Ops("rev-list", 2) : PositiveCount(trace[k])
    /\ \E q \in Ops("pull", 2) : ~trace[q].ok
    /\ N("input", 2) >= 1

\* --------------------------------------------------------------------
\* C4: when the comparison query of a checked-out branch fails (command
\* error, timeout, or output that is no integer), the very next call is a
\* pull for that branch: the run does not abort and the branch is not skipped.
CompareFailed(e) == ~e.ok \/ ~ParseInt(e.out).ok

C4_CompareFailureFailsOpen ==
    \A b \in Started : \A k \in Ops("rev-list", b) :
        CompareFailed(trace[k])
            => \/ k = Len(trace) /\ pc = "pull" /\ idx = b /\ exit_status = -1
               \/ k < Len(trace) /\ trace[k + 1].op = "pull" /\ trace[k + 1].b = b

\* the query raised for the first branch and printed no integer for the
\* second, and both were pulled
C4_Witness ==
    /\ \E k \in Ops("rev-list", 1) : ~trace[k].ok
    /\ N("pull", 1) = 1
    /\ \E k \in Ops("rev-list", 2) : trace[k].ok /\ ~ParseInt(trace[k].out).ok
    /\ N("pull", 2) = 1

\* --------------------------------------------------------------------
\* helpers for the retry loop
Min(S) == CHOOSE x \in S : \A y \in S : x <= y

\* the initial pull of iteration b failed
PullFailed(b) == \E q \in Ops("pull", b) : ~trace[q].ok

\* the first answer read at the prompt of iteration b was `a`
FirstAnswer(b, a) ==
    /\ Ops("input", b) # {}
    /\ trace[Min(Ops("input", b))].ok
    /\ trace[Min(Ops("input", b))].out = a

\* the first retried pull of iteration b has returned, with this outcome
FirstRetry(b, ok) ==
    /\ Ops("retry-pull", b) # {}
    /\ trace[Min(Ops("retry-pull", b))].ok = ok

\* failed pull attempts of iteration b, initial and retried
FailedPulls(b) == { q \in Ops("pull", b) \cup Ops("retry-pull", b) : ~trace[q].ok }

\* calls of log_pull_error in iteration b whose append succeeded
WrittenCalls(b) == { k \in Ops("log_pull_error", b) : trace[k].ok }

\* the log lines the call at position k of the history appended
EntriesOf(k) == { e \in DOMAIN log : log[e].at = k }

HasMarker(message) == message # <<>> /\ Head(message) = RetryMarker

\* each successful append of iteration b left exactly one line, a failed one
\* none, and the iteration has no other line
OneLinePerAppend(b) ==
    /\ \A k \in Ops("log_pull_error", b) :
         Cardinality(EntriesOf(k)) = IF trace[k].ok THEN 1 ELSE 0
    /\ Cardinality(LogFor(b)) = Cardinality(WrittenCalls(b))
    /\ \A e \in LogFor(b) : log[e].branch = remote_branches[b]

\* --------------------------------------------------------------------
\* C5 (as stated): after a failed pull and "n" as the first answer, the
\* branch gets no further pull, the log holds exactly one entry for it, and
\* the loop moves on.
C5_Original ==
    \A b \in Started :
        (PullFailed(b) /\ FirstAnswer(b, <<"n">>))
            => /\ N("pull", b) = 1
               /\ N("retry-pull", b) = 0
               /\ Cardinality(LogFor(b)) = 1
               /\ MovedOn(b)

\* C5 (amended): after a failed pull and "n" as the first answer, the branch
\* gets no further pull and no further prompt, log_pull_error has been called
\* exactly once for it (one entry in the log when that append succeeded, none
\* when it failed), and the loop moves on.
C5_SkipOnNo ==
    \A b \in Started :
        (PullFailed(b) /\ FirstAnswer(b, <<"n">>))
            => /\ N("pull", b) = 1
               /\ N("retry-pull", b) = 0
               /\ N("input", b) = 1
               /\ N("log_pull_error", b) = 1
               /\ OneLinePerAppend(b)
               /\ MovedOn(b)

\* the first branch failed to pull, was logged, the operator said no and the
\* loop is at the second branch
C5_Witness ==
    /\ PullFailed(1)
    /\ FirstAnswer(1, <<"n">>)
    /\ Cardinality(LogFor(1)) = 1
    /\ idx = 2

\* --------------------------------------------------------------------
\* C6 (as stated): after a failed pull, "y" and a successful retried pull,
\* the log holds exactly one entry for the branch, without the retry marker,
\* and the loop moves on without another prompt.
C6_Original ==
    \A b \in Started :
        (PullFailed(b) /\ FirstAnswer(b, <<"y">>) /\ FirstRetry(b, TRUE))
            => /\ Cardinality(LogFor(b)) = 1
               /\ \A e \in LogFor(b) : ~HasMarker(log[e].message)
               /\ N("input", b) = 1
               /\ MovedOn(b)

\* C6 (amended): after a failed pull, "y" and a successful retried pull,
\* log_pull_error has been called exactly once for the branch (one entry
\* without the retry marker when that append succeeded, none when it
\* failed), and the loop moves on without another prompt or pull.
C6_RetrySuccessLeavesLoop ==
    \A b \in Started :
        (PullFailed(b) /\ FirstAnswer(b, <<"y">>) /\ FirstRetry(b, TRUE))
            => /\ N("log_pull_error", b) = 1
               /\ OneLinePerAppend(b)
               /\ \A e \in LogFor(b) : ~HasMarker(log[e].message)
               /\ N("input", b) = 1
               /\ N("retry-pull", b) = 1
               /\ MovedOn(b)

\* the first branch failed to pull, was logged, was retried with success and
\* the loop is at the second branch
C6_Witness ==
    /\ PullFailed(1)
    /\ FirstAnswer(1, <<"y">>)
    /\ FirstRetry(1, TRUE)
    /\ Cardinality(LogFor(1)) = 1
    /\ idx = 2

\* --------------------------------------------------------------------
\* C7 (as stated): after a failed pull, "y" and a failed retried pull, the
\* log holds two entries for the branch (until a further retry fails), the
\* second one with the retry marker, and the prompt for the same branch is
\* presented again.
C7_Original ==
    \A b \in Started :
        (PullFailed(b) /\ FirstAnswer(b, <<"y">>) /\ FirstRetry(b, FALSE))
            => /\ Cardinality(LogFor(b)) >= 2
               /\ N("retry-pull", b) = 1 => Cardinality(LogFor(b)) = 2
               /\ \A e \in LogFor(b) :
                    HasMarker(log[e].message) <=> e # Min(LogFor(b))
               /\ \/ idx = b /\ pc = "input"
                  \/ N("input", b) >= 2

\* C7 (amended): after a failed pull, "y" and a failed retried pull,
\* log_pull_error has been called twice for the branch (until a further
\* retry fails); each call whose append succeeded left one entry, the one of
\* the first call without and the one of the second with the retry marker;
\* and the prompt for the same branch is presented again.
C7_RetryFailureLogsAndReprompts ==
    \A b \in Started :
        (PullFailed(b) /\ FirstAnswer(b, <<"y">>) /\ FirstRetry(b, FALSE))
            => /\ N("log_pull_error", b) >= 2
               /\ N("retry-pull", b) = 1 => N("log_pull_error", b) = 2
               /\ OneLinePerAppend(b)
               /\ \A k \in Ops("log_pull_error", b) : \A e \in EntriesOf(k) :
                    HasMarker(log[e].message) <=> k # Min(Ops("log_pull_error", b))
               /\ \/ idx = b /\ pc = "input"
                  \/ N("input", b) >= 2

\* the first branch failed to pull and failed again on retry, both failures
\* are in the log, and the operator is being asked again
C7_Witness ==
    /\ PullFailed(1)
    /\ FirstAnswer(1, <<"y">>)
    /\ FirstRetry(1, FALSE)
    /\ Cardinality(LogFor(1)) = 2
    /\ HasMarker(log[2].message)
    /\ idx = 1
    /\ pc = "input"

\* --------------------------------------------------------------------
\* C8 (as stated): at any point the number of log entries of a branch is the
\* number of failed pull attempts made for it so far, and every entry of the
\* log comes from a failed pull attempt.
C8_Original ==
    /\ \A b \in Started : Cardinality(LogFor(b)) = Cardinality(FailedPulls(b))
    /\ \A e \in DOMAIN log :
         /\ trace[log[e].at].op = "log_pull_error"
         /\ ~trace[log[e].at - 1].ok
         /\ trace[log[e].at - 1].op \in {"pull", "retry-pull"}

\* C8 (amended): at any point the number of calls of log_pull_error for a
\* branch is the number of failed pull attempts made for it so far, each call
\* directly following one; a call appends exactly one entry when its append
\* succeeds and none when it fails, so the entries of a branch never exceed
\* its failed pull attempts; and no entry is written for any other reason.
C8_OneLogCallPerFailedPull ==
    /\ \A b \in Started :
         /\ N("log_pull_error", b) = Cardinality(FailedPulls(b))
         /\ \A q \in FailedPulls(b) :
              q < Len(trace) /\ trace[q + 1].op = "log_pull_error" /\ trace[q + 1].b = b
         /\ OneLinePerAppend(b)
         /\ Cardinality(LogFor(b)) <= Cardinality(FailedPulls(b))
    /\ \A k \in DOMAIN trace :
         trace[k].op = "log_pull_error" => trace[k].b \in Started
    /\ \A e \in DOMAIN log :
         /\ trace[log[e].at].op = "log_pull_error"
         /\ trace[log[e].at].ok
         /\ ~trace[log[e].at - 1].ok
         /\ trace[log[e].at - 1].op \in {"pull", "retry-pull"}
    /\ Len(log) = Cardinality({ k \in DOMAIN trace :
                                  trace[k].op = "log_pull_error" /\ trace[k].ok })

\* a branch with two failed pull attempts and both of them in the log
C8_Witness ==
    \E b \in Started :
        /\ Cardinality(FailedPulls(b)) = 2
        /\ Cardinality(LogFor(b)) = 2

\* --------------------------------------------------------------------
\* C9: when the enumeration succeeds and yields no branch, the run exits
\* with status 0 and makes no checkout, no comparison query and no pull.
C9_NoBranchesExitsZero ==
    (\E k \in DOMAIN trace : trace[k].op = "branch-r" /\ trace[k].ok
                               /\ remote_branches = <<>>)
        => /\ pc = "exited"
           /\ exit_status = 0
           /\ \A k \in DOMAIN trace : trace[k].op \notin BranchOps
           /\ Len(trace) = 3
           /\ log = <<>>

\* the listing was read, held no branch, and the run is over with status 0
C9_Witness ==
    /\ Len(trace) = 3
    /\ trace[3].op = "branch-r"
    /\ trace[3].ok
    /\ remote_branches = <<>>
    /\ exit_status = 0

\* --------------------------------------------------------------------
\* C10: when the fetch or the enumeration fails the run ends at once with
\* status 1: no checkout, comparison query, pull or prompt, no log entry;
\* and after a failed fetch the enumeration is not invoked.
C10_FetchOrEnumerationFailureIsFatal ==
    \A k \in DOMAIN trace :
        (trace[k].op \in {"fetch", "branch-r"} /\ ~trace[k].ok)
            => /\ pc = "exited"
               /\ exit_status = 1
               /\ k = Len(trace)
               /\ \A j \in DOMAIN trace : trace[j].op \notin BranchOps
               /\ trace[k].op = "fetch" =>
                    \A j \in DOMAIN trace : trace[j].op # "branch-r"
               /\ log = <<>>

\* the fetch succeeded, the enumeration failed, and the run is over with
\* status 1
C10_Witness ==
    /\ Len(trace) = 3
    /\ trace[2].op = "fetch" /\ trace[2].ok
    /\ trace[3].op = "branch-r" /\ ~trace[3].ok
    /\ pc = "exited"
    /\ exit_status = 1

\* --------------------------------------------------------------------
\* C11: when the checkout of a branch fails, the branch gets no comparison
\* query, no pull, no prompt, no log call or entry and no second checkout;
\* the loop goes on with the next branch and the run is not ended by it.
C11_CheckoutFailureSkipsBranch ==
    \A b \in Started : \A k \in Ops("checkout", b) :
        ~trace[k].ok
            => /\ N("checkout", b) = 1
               /\ N("rev-list", b) = 0
               /\ N("pull", b) = 0
               /\ \A op \in RetryLogic : N(op, b) = 0
               /\ LogFor(b) = {}
               /\ MovedOn(b)
               /\ \/ k = Len(trace) /\ pc = "checkout" /\ idx = b + 1
                  \/ k = Len(trace) /\ pc = "exited" /\ exit_status = 0
                                    /\ b = Len(remote_branches)
                  \/ k < Len(trace) /\ trace[k + 1].op = "checkout"
                                    /\ trace[k + 1].b = b + 1

\* the checkout of the first branch failed and the second branch has been
\* checked out
C11_Witness ==
    /\ \E k \in Ops("checkout", 1) : ~trace[k].ok
    /\ \E k \in Ops("checkout", 2) : trace[k].ok

\* --------------------------------------------------------------------
\* C12: the exit status is 1 exactly when the repository check, the fetch or
\* the enumeration failed, and 0 otherwise: nothing that happens in the
\* per-branch loop yields a non-zero status.
FatalPreconditionFailed ==
    \/ \E k \in DOMAIN trace : trace[k].op \in {"fetch", "branch-r"} /\ ~trace[k].ok
    \/ \E k \in DOMAIN trace :
         trace[k].op = "rev-parse" /\ ~(trace[k].ok /\ SaysTrue(trace[k].out))

C12_ExitStatus ==
    exit_status # -1
        => /\ exit_status \in {0, 1}
           /\ exit_status = 1 <=> FatalPreconditionFailed

\* --------------------------------------------------------------------
\* C13: at the retry prompt, an answer that is neither 'y' nor 'n' (up to
\* case and surrounding whitespace) does nothing: no pull, no log call or
\* entry, the same branch, and the prompt again; 'Y' goes on to the retried
\* pull exactly as 'y' does and 'N' leaves the loop exactly as 'n' does.
\* the text is one of the letters, with nothing but whitespace around it
Answers(text, letters) ==
    \E i \in DOMAIN text :
        /\ text[i] \in letters
        /\ \A j \in DOMAIN text : j # i => text[j] \in Whitespace

\* an answer has been read at the prompt in this step
AnswerRead == pc = "input" /\ trace' # trace /\ trace'[Len(trace')].ok

C13_PromptStep ==
    AnswerRead
        => /\ Len(trace') = Len(trace) + 1
           /\ SubSeq(trace', 1, Len(trace)) = trace
           /\ trace'[Len(trace')].op = "input"
           /\ trace'[Len(trace')].b = idx
           /\ log' = log
           /\ head' = head
           /\ remote_branches' = remote_branches
           /\ IF Answers(typed', {"y", "Y"})
              THEN pc' = "retry" /\ idx' = idx /\ exit_status' = exit_status
              ELSE IF Answers(typed', {"n", "N"})
              THEN \/ pc' = "checkout" /\ idx' = idx + 1 /\ exit_status' = exit_status
                   \/ /\ idx = Len(remote_branches)
                      /\ pc' = "exited" /\ idx' = idx /\ exit_status' = 0
              ELSE pc' = "input" /\ idx' = idx /\ exit_status' = exit_status

C13_OtherInputReprompts == [][C13_PromptStep]_vars

\* the operator typed something else and is being asked again about the
\* same branch
C13_Witness ==
    /\ typed = <<"x">>
    /\ pc = "input"
    /\ trace[Len(trace)].op = "input"
    /\ trace[Len(trace)].b = idx

\* --------------------------------------------------------------------
\* the lines of the listing, as printed
ListingLines == SplitLines(listing)

HasArrow(line) == \E k \in 1..(Len(line) - 1) : line[k] = "-" /\ line[k + 1] = ">"

RECURSIVE Without(_)
\* the lines without the marker, in listing order
Without(lines) ==
    IF lines = <<>> THEN <<>>
    ELSE IF HasArrow(Head(lines)) THEN Without(Tail(lines))
    ELSE <<Head(lines)>> \o Without(Tail(lines))

IsSuffix(t, s) ==
    Len(t) <= Len(s) /\ \A k \in 1..Len(t) : t[k] = s[Len(s) - Len(t) + k]

\* C14: get_remote_branches returns one name for each line of the listing
\* that has no "->", in listing order, each name being the tail of its
\* line; the lines with "->" give nothing.
C14_AliasLinesDropped ==
    pc = "enumerated"
        => /\ Len(remote_branches) = Len(Without(ListingLines))
           /\ \A j \in 1..Len(remote_branches) :
                 /\ remote_branches[j] # <<>>
                 /\ IsSuffix(remote_branches[j], Without(ListingLines)[j])
                 /\ ~HasArrow(remote_branches[j])

\* an alias line between two branch lines
C14_Witness ==
    /\ pc = "enumerated"
    /\ Len(ListingLines) = 3
    /\ HasArrow(ListingLines[2])
    /\ ~HasArrow(ListingLines[1])
    /\ ~HasArrow(ListingLines[3])
    /\ Len(remote_branches) = 2
    /\ remote_branches[1] # remote_branches[2]

\* --------------------------------------------------------------------
\* the line without the whitespace around it
Trimmed(line) ==
    LET inked == { k \in DOMAIN line : line[k] \notin Whitespace }
    IN  IF inked = {} THEN <<>>
        ELSE SubSeq(line, CHOOSE k \in inked : \A m \in inked : k <= m,
                          CHOOSE k \in inked : \A m \in inked : k >= m)

\* "origin/" followed by a name
Prefixed(name) ==
    /\ Len(name) > 7
    /\ SubSeq(name, 1, 7) = <<"o","r","i","g","i","n","/">>

\* C15: the name returned for a line "origin/<name>" is <name>, the line
\* less its first seven characters and nothing more; a line that does not
\* begin with "origin/" is returned as it is.
C15_OneOriginPrefixStripped ==
    pc = "enumerated"
        => \A j \in 1..Len(Without(ListingLines)) :
              LET name == Trimmed(Without(ListingLines)[j])
              IN  /\ j <= Len(remote_branches)
                  /\ IF Prefixed(name)
                     THEN remote_branches[j] = SubSeq(name, 8, Len(name))
                     ELSE remote_branches[j] = name

\* origin/origin/a gives origin/a, up/origin/a stays, origin/a gives a
C15_Witness ==
    /\ pc = "enumerated"
    /\ Len(remote_branches) = 3
    /\ remote_branches[1] = <<"o","r","i","g","i","n","/","a">>
    /\ remote_branches[2] = <<"u","p","/","o","r","i","g","i","n","/","a">>
    /\ remote_branches[3] = <<"a">>

\* --------------------------------------------------------------------
\* the ways a command fails: it times out, or it exits with a status not 0
TimedOut == { r \in Results(NoOutput, StderrTexts) : r.status = "timeout" }
ExitedNonZero == { r \in Results(NoOutput, StderrTexts) : r.status = "error" }

\* two log files with the same number of entries, alike but for the message
\* of the last one
SameButMessage(f, g) ==
    /\ Len(f) = Len(g)
    /\ \A k \in 1..Len(f) :
          /\ f[k].branch = g[k].branch
          /\ f[k].at = g[k].at
          /\ k < Len(f) => f[k].message = g[k].message

\* C16: at each of the seven call sites a step taken on a timeout is the
\* step taken on any other failure of the command, and the other way round:
\* same next position, exit status, history and branch; at the two pulls
\* the log files have the same number of entries and differ in nothing but
\* the message of the entry just written.
C16_Step ==
    \A t \in TimedOut, e \in ExitedNonZero :
        /\ RepoCheckOn(t) <=> RepoCheckOn(e)
        /\ FetchOn(t) <=> FetchOn(e)
        /\ EnumerateOn(t) <=> EnumerateOn(e)
        /\ CheckoutOn(t) <=> CheckoutOn(e)
        /\ CompareOn(t) <=> CompareOn(e)
        /\ \A w \in BOOLEAN :
              /\ PullOn(t, w) <=> PullOn(e, w)
              /\ RetryPullOn(t, w) <=> RetryPullOn(e, w)
              /\ pc = "pull" => SameButMessage(PullLog(t, w), PullLog(e, w))
              /\ pc = "retry"
                    => SameButMessage(RetryPullLog(t, w), RetryPullLog(e, w))

C16_TimeoutIsAFailure == [][C16_Step]_vars

\* a pull timed out: its message is in the log and the operator is asked
C16_Witness ==
    /\ pc = "input"
    /\ Len(log) = 1
    /\ \E t \in TimedOut : log[1].message = run_command("git pull", t).value
    /\ trace[Len(trace)].op = "log_pull_error"

\* --------------------------------------------------------------------
InRetryLoop == pc \in {"input", "retry"}

\* the loop was left by `break`: the for loop went on or main returned
LeftRetryLoop == pc \in {"checkout", "exited"}

\* every enumerated branch was checked out or skipped at its checkout
AllBranchesVisited ==
    \A b \in 1..Len(remote_branches) : N("checkout", b) = 1

\* the operator is asked about a branch for the k-th time, k as large as the
\* bound on the answers read lets it be
AskedAgainAndAgain ==
    /\ pc = "input"
    /\ inputs_read = MaxInputs
    /\ N("input", idx) = MaxInputs
    /\ N("retry-pull", idx) = MaxInputs

\* C17: when no fatal precondition fails and every retry loop entered is
\* left, the run ends with exit status 0 having visited every enumerated
\* branch.  The loop itself has no bound: at the prompt 'y' can always be
\* answered and the retried pull can always fail back to the prompt of the
\* same branch.
C17_TerminatesWhenLoopsAreLeft ==
    /\ ([]~FatalPreconditionFailed /\ [](InRetryLoop => <>LeftRetryLoop))
          => <>(pc = "exited" /\ exit_status = 0 /\ AllBranchesVisited)
    /\ [](pc = "input" /\ inputs_read < MaxInputs
             => ENABLED (Input /\ pc' = "retry" /\ idx' = idx))
    /\ [](pc = "retry" => ENABLED (RetryPull /\ pc' = "input" /\ idx' = idx))

\* a run that went round the retry loop of its first branch and ended with 0
\* after its second
C17_Witness ==
    /\ pc = "exited"
    /\ exit_status = 0
    /\ Len(remote_branches) = 2
    /\ AllBranchesVisited
    /\ N("retry-pull", 1) > 0
    /\ N("input", 1) = MaxInputs

\* --------------------------------------------------------------------
\* the call at position k of the history was the last one of its iteration
EndsIteration(k) ==
    \/ trace[k].op = "checkout" /\ ~trace[k].ok
    \/ trace[k].op = "rev-list" /\ trace[k].ok
    \/ trace[k].op \in {"pull", "retry-pull"} /\ trace[k].ok
    \/ trace[k].op = "input" /\ trace[k].ok /\ trace[k].out = <<"n">>

\* C18: the history of calls begins with the repository check, then the
\* one fetch, then the one enumeration; all that follows belongs to the
\* branches, taken one after the other in enumerated order, each iteration
\* beginning with the one checkout of its branch and the next one beginning
\* only when the one before has ended.
C18_FixedCommandOrder ==
    /\ \A k \in DOMAIN trace :
          /\ trace[k].op = "rev-parse" <=> k = 1
          /\ trace[k].op = "fetch" <=> k = 2
          /\ trace[k].op = "branch-r" <=> k = 3
          /\ k > 3 => /\ trace[k].op \in BranchOps
                      /\ trace[k].b \in 1..Len(remote_branches)
          /\ k = 4 => trace[k].op = "checkout" /\ trace[k].b = 1
          /\ k > 4 => \/ /\ trace[k].b = trace[k - 1].b
                         /\ trace[k].op # "checkout"
                      \/ /\ trace[k].b = trace[k - 1].b + 1
                         /\ trace[k].op = "checkout"
                         /\ EndsIteration(k - 1)
          /\ trace[k].op = "checkout"
                => trace[k].out = remote_branches[trace[k].b]
    /\ \A b \in 1..Len(remote_branches) : N("checkout", b) <= 1

\* the second branch is checked out after the retry loop of the first
C18_Witness ==
    /\ N("retry-pull", 1) > 0
    /\ N("input", 1) = 2
    /\ N("checkout", 2) = 1

\* --------------------------------------------------------------------
\* the run ended with status 1 at the call at position k
Aborted(k) == k = Len(trace) /\ pc = "exited" /\ exit_status = 1

\* the call at position k is the last of iteration b and the loop went on
Skipped(k, b) ==
    \/ k = Len(trace) /\ pc = "checkout" /\ idx = b + 1
    \/ k = Len(trace) /\ pc = "exited" /\ exit_status = 0
    \/ k < Len(trace) /\ trace[k + 1].op = "checkout" /\ trace[k + 1].b = b + 1

\* the call at position k is followed by the pull of iteration b
PullAssumedNeeded(k, b) ==
    \/ k = Len(trace) /\ pc = "pull" /\ idx = b
    \/ k < Len(trace) /\ trace[k + 1].op = "pull" /\ trace[k + 1].b = b

\* the operator of iteration b is asked right after the call at position k
Prompted(k, b) ==
    \/ k = Len(trace) /\ pc = "input" /\ idx = b
    \/ k < Len(trace) /\ trace[k + 1].op = "input" /\ trace[k + 1].b = b

\* C19: each failed git command and each failed append to the log is
\* followed by its decision: exit 1 after the repository check, the fetch
\* and the enumeration; the next branch after a checkout; the pull after the
\* comparison; log_pull_error and the prompt after a pull; the prompt after
\* a failed append.  The run is never left with a traceback by one of them.
C19_FailuresBecomeDecisions ==
    /\ \A k \in DOMAIN trace :
          ~trace[k].ok =>
             LET op == trace[k].op
                 b == trace[k].b
             IN  /\ op \in {"rev-parse", "fetch", "branch-r"} => Aborted(k)
                 /\ op = "checkout" => Skipped(k, b)
                 /\ op = "rev-list" => PullAssumedNeeded(k, b)
                 /\ op \in {"pull", "retry-pull"}
                       => /\ k < Len(trace)
                          /\ trace[k + 1].op = "log_pull_error"
                          /\ trace[k + 1].b = b
                          /\ Prompted(k + 1, b)
                 /\ op = "log_pull_error" => Prompted(k, b)
    /\ pc = "traceback" => trace[Len(trace)].op = "input"

\* the append to the log failed and the operator was asked and answered
C19_Witness ==
    \E k \in DOMAIN trace :
        /\ trace[k].op = "log_pull_error"
        /\ ~trace[k].ok
        /\ k < Len(trace)
        /\ trace[k + 1].op = "input"
        /\ trace[k + 1].ok

\* --------------------------------------------------------------------
\* the successful checkout of iteration b that the call at position k
\* follows with no other checkout in between
CheckedOutBefore(k, b) ==
    \E c \in Ops("checkout", b) :
        /\ c < k
        /\ trace[c].ok
        /\ \A m \in (c + 1)..(k - 1) : trace[m].op # "checkout"

\* C20: each pull, first or retried, of iteration b runs with the branch
\* of iteration b checked out, after the successful checkout of that
\* iteration and no other checkout; an iteration whose checkout failed has
\* no pull; each log line names the branch checked out when the failing
\* pull ran.
C20_PullOnCheckedOutBranch ==
    /\ \A k \in DOMAIN trace :
          /\ trace[k].op \in {"pull", "retry-pull"}
                => /\ trace[k].out = remote_branches[trace[k].b]
                   /\ CheckedOutBefore(k, trace[k].b)
          /\ trace[k].op = "checkout" /\ ~trace[k].ok
                => N("pull", trace[k].b) = 0 /\ N("retry-pull", trace[k].b) = 0
    /\ \A e \in DOMAIN log :
          /\ log[e].at > 1
          /\ trace[log[e].at - 1].op \in {"pull", "retry-pull"}
          /\ ~trace[log[e].at - 1].ok
          /\ log[e].branch = trace[log[e].at - 1].out

\* the pull of the first branch failed and was logged under its name, and
\* the checkout of the second branch failed
C20_Witness ==
    /\ Len(remote_branches) = 2
    /\ remote_branches[1] # remote_branches[2]
    /\ \E e \in DOMAIN log : log[e].branch = remote_branches[1]
    /\ \E k \in Ops("checkout", 2) : ~trace[k].ok
    /\ head = remote_branches[1]

====
